---- MODULE Spec2Model ----
(***************************************************************************)
(* Lab1Code: gravitational potential, gravitational force field and the    *)
(* rocket-burn altitude estimate of the Earth-Moon notebook.               *)
(*                                                                         *)
(* Numbers.  The notebook computes in binary64.  Two models of it are used:*)
(*  - the field functions (gravitational_potential, gravitational_force)   *)
(*    are computed operation by operation in rounded arithmetic whose      *)
(*    resolution is 1: every division and square root rounds toward zero   *)
(*    to an integer, as binary64 rounds to its 53 bits;                    *)
(*  - the burn (T, delta_v's mass and branch) is computed in binary64      *)
(*    itself: a value is a signed dyadic number m * 2^e whose mantissa is  *)
(*    held as digits to the base 2^15, and every operation rounds to 53    *)
(*    bits, to nearest, ties to even.                                      *)
(* Units.  TLC's integers have 32 bits, so the constants are held in units *)
(* that keep G*M1*m2 below 2^31: G in 1e-14 m^3/kg/s^2, the source masses  *)
(* in 1e21 kg, the test mass in 500 kg.  Lengths are metres, so the floors *)
(* 1e3 m and 1e6 m^2 are the program's own numbers.                        *)
(***************************************************************************)
EXTENDS Integers, Sequences, FiniteSets, TLC

VARIABLES pc,              \* position in the calling script
          call, ret,       \* a call of a field function: its arguments, its result
          d_earth_moon, X, Y, Fx_total, Fy_total, i, j, magnitude, done,
          profile, T, out, t, dv

fieldVars == <<call, ret>>
gridVars == <<d_earth_moon, X, Y, Fx_total, Fy_total, i, j, magnitude, done>>
burnVars == <<profile, T, out, t, dv>>
vars == <<pc, call, ret, d_earth_moon, X, Y, Fx_total, Fy_total, i, j, magnitude,
          done, profile, T, out, t, dv>>

----------------------------------------------------------------------------
(* Constants (lines 6-17) *)

G == 6670             \* 6.67e-11 m^3/kg/s^2, in 1e-14
M_earth == 5900       \* 5.9e24 kg, in 1e21 kg
M_moon == 73          \* 7.3e22 kg, in 1e21 kg
m_cmd == 11           \* 5500 kg, in 500 kg
g == 981              \* 9.81 m/s^2, in cm/s^2
ve == 2400            \* m/s
mdot == 13000         \* kg/s
m0 == 2800000         \* kg
mf == 750000          \* kg

MinR == 1000          \* the 1e3 of np.maximum(r, 1e3)
MinR2 == 1000000      \* the 1e6 of np.maximum(r2, 1e6)

----------------------------------------------------------------------------
(* Rounded arithmetic of the field functions *)

Abs(a) == IF a < 0 THEN -a ELSE a

Sign(a) == IF a < 0 THEN -1 ELSE IF a > 0 THEN 1 ELSE 0

\* np.maximum
Maximum(a, b) == IF a >= b THEN a ELSE b

\* a / b rounded toward zero.  A zero divisor gives numpy's inf, held as 0
\* with the divisor kept by the caller: no call of the model reaches it.
Div(a, b) == IF b = 0 THEN 0 ELSE Sign(a) * Sign(b) * (Abs(a) \div Abs(b))

RECURSIVE SqrtSearch(_, _, _)
SqrtSearch(n, lo, hi) ==
    IF lo >= hi THEN lo
    ELSE LET mid == (lo + hi + 1) \div 2
         IN  IF mid * mid <= n THEN SqrtSearch(n, mid, hi)
             ELSE SqrtSearch(n, lo, mid - 1)

\* np.sqrt rounded toward zero
Sqrt(n) == SqrtSearch(n, 0, IF n < 46340 THEN n ELSE 46340)

----------------------------------------------------------------------------
(* Part 1: gravitational potential (lines 20-23) *)

\* the distance without its floor
potential_r_unfloored(xM, yM, x, y) ==
    Sqrt((x - xM) * (x - xM) + (y - yM) * (y - yM))

\* lines 21-22: the distance, floored at 1e3
potential_r(xM, yM, x, y) ==
    Maximum(Sqrt((x - xM) * (x - xM) + (y - yM) * (y - yM)), MinR)

\* the potential with its sign lost
gravitational_potential_positive(M, xM, yM, x, y) ==
    [k \in DOMAIN x |-> Div(G * M, potential_r(xM, yM, x[k], y[k]))]

\* x and y are arrays (numpy evaluates element by element); so is the result.
gravitational_potential(M, xM, yM, x, y) ==
    [k \in DOMAIN x |-> Div(-G * M, potential_r(xM, yM, x[k], y[k]))]

----------------------------------------------------------------------------
(* Part 3: gravitational force (lines 79-86) *)

\* the squared distance without its floor
force_r2_unfloored(x1, y1, x2, y2) ==
    LET dx == x2 - x1
        dy == y2 - y1
    IN  dx * dx + dy * dy

\* lines 80-83: the squared distance, floored at 1e6
force_r2(x1, y1, x2, y2) ==
    LET dx == x2 - x1
        dy == y2 - y1
    IN  Maximum(dx * dx + dy * dy, MinR2)

\* line 84
force_r(x1, y1, x2, y2) == Sqrt(force_r2(x1, y1, x2, y2))

\* the force with its sign lost: repulsion
gravitational_force_repulsive(M1, m2, x1, y1, x2, y2) ==
    LET dx == x2 - x1
        dy == y2 - y1
        r2 == force_r2(x1, y1, x2, y2)
        r == force_r(x1, y1, x2, y2)
        F == Div(G * M1 * m2, r2)
    IN  <<Div(F * dx, r), Div(F * dy, r)>>

gravitational_force(M1, m2, x1, y1, x2, y2) ==
    LET dx == x2 - x1
        dy == y2 - y1
        r2 == force_r2(x1, y1, x2, y2)
        r == force_r(x1, y1, x2, y2)
        F == Div(-G * M1 * m2, r2)
    IN  <<Div(F * dx, r), Div(F * dy, r)>>

\* line 100, for one cell
Magnitude(fx, fy) == Sqrt(fx * fx + fy * fy)

----------------------------------------------------------------------------
(* Calls of the field functions on inputs drawn from bounded sets *)

Step == 500           \* spacing of the sampled coordinates, metres
MaxK == 3             \* coordinates are k*Step, k in -MaxK..MaxK

\* the sampled coordinates, and one a metre past the floor
Coords == {k * Step : k \in -MaxK..MaxK} \cup {2 * Step + 1}
Masses == {M_moon, M_earth}
Sources == {<<0, 0>>, <<Step, -Step>>}

Null == [fn |-> "none"]

PotentialCalls ==
    {[fn |-> "potential", M |-> M, xM |-> s[1], yM |-> s[2], x |-> x, y |-> y] :
        M \in Masses, s \in Sources, x \in [1..2 -> Coords], y \in [1..2 -> Coords]}

ForceCalls ==
    {[fn |-> "force", M1 |-> M, m2 |-> m_cmd, x1 |-> s[1], y1 |-> s[2],
      x2 |-> p[1], y2 |-> p[2]] :
        M \in Masses, s \in Sources, p \in Coords \X Coords}

InitFn ==
    /\ pc = "call"
    /\ call \in PotentialCalls \cup ForceCalls
    /\ ret = Null
    /\ d_earth_moon = 0 /\ X = <<>> /\ Y = <<>> /\ Fx_total = <<>> /\ Fy_total = <<>>
    /\ i = 0 /\ j = 0 /\ magnitude = <<>> /\ done = {}
    /\ profile = Null /\ T = Null /\ out = <<>> /\ t = Null /\ dv = Null

CallPotential ==
    /\ pc = "call"
    /\ call.fn = "potential"
    /\ ret' = gravitational_potential(call.M, call.xM, call.yM, call.x, call.y)
    /\ pc' = "returned"
    /\ UNCHANGED <<call, gridVars, burnVars>>

CallForce ==
    /\ pc = "call"
    /\ call.fn = "force"
    /\ ret' = gravitational_force(call.M1, call.m2, call.x1, call.y1, call.x2, call.y2)
    /\ pc' = "returned"
    /\ UNCHANGED <<call, gridVars, burnVars>>

NextFn == CallPotential \/ CallForce

SpecFn == InitFn /\ [][NextFn]_vars

----------------------------------------------------------------------------
(* Properties of the field functions, under SpecFn *)

PotentialReturned == pc = "returned" /\ call.fn = "potential"
ForceReturned == pc = "returned" /\ call.fn = "force"

\* exact squared distance of the k-th query point of a potential call
PotD2(k) ==
    (call.x[k] - call.xM) * (call.x[k] - call.xM)
        + (call.y[k] - call.yM) * (call.y[k] - call.yM)

\* exact squared distance of the query point of a force call
ForceD2 ==
    (call.x2 - call.x1) * (call.x2 - call.x1)
        + (call.y2 - call.y1) * (call.y2 - call.y1)

\* C1: for a query point inside the floor (squared distance below 1e6, the
\* source itself left out since it has no direction) the returned force has
\* the magnitude of the force at the floor, G*M1*m2/1e6, however deep inside
\* the point lies.  Stated up to the rounding of the operations (2 units).
C1_ForceClampMagnitude ==
    (ForceReturned /\ 0 < ForceD2 /\ ForceD2 < MinR2)
        => Abs(Magnitude(ret[1], ret[2]) - Div(G * call.M1 * call.m2, MinR2)) <= 2

\* C2: every query point nearer than 1000 m to the mass, the mass's own
\* position included, gets the potential -G*M/1000, the same value as a
\* query point at exactly 1000 m.
C2_PotentialClamp ==
    PotentialReturned =>
        \A k \in DOMAIN ret :
            PotD2(k) < MinR2 =>
                /\ ret[k] = Div(-G * call.M, 1000)
                /\ \A n \in DOMAIN ret : PotD2(n) = MinR2 => ret[k] = ret[n]

C2_Witness ==
    /\ PotentialReturned
    /\ \E k, n \in DOMAIN ret :
        /\ PotD2(k) < MinR2
        /\ PotD2(n) = MinR2
        /\ ret[k] = ret[n]
    /\ \E k \in DOMAIN ret : PotD2(k) = 0

\* C4: away from the source, each force component has the sign opposite to
\* the displacement from the source to the query point (zero where the
\* displacement is zero), and the magnitude of the vector is not negative.
C4_ForceDirection ==
    (ForceReturned /\ ForceD2 > 0) =>
        /\ call.x2 > call.x1 => ret[1] <= 0
        /\ call.x2 < call.x1 => ret[1] >= 0
        /\ call.x2 = call.x1 => ret[1] = 0
        /\ call.y2 > call.y1 => ret[2] <= 0
        /\ call.y2 < call.y1 => ret[2] >= 0
        /\ call.y2 = call.y1 => ret[2] = 0
        /\ Magnitude(ret[1], ret[2]) >= 0

C4_Witness ==
    /\ ForceReturned
    /\ call.x2 > call.x1 /\ call.y2 < call.y1
    /\ ret[1] < 0 /\ ret[2] > 0
    /\ Magnitude(ret[1], ret[2]) > 0

PotR(k) == potential_r(call.xM, call.yM, call.x[k], call.y[k])

----------------------------------------------------------------------------
(* The sample grid (lines 39-42) and the Moon's position (lines 55-56) *)

grid_pts == 3         \* 500 in the program

\* The Earth-Moon separations the loop is run for.  The program's 3.8e8 m
\* squares to more than TLC's integers hold, so d_earth_moon is drawn from a
\* range of separations of the size of the floor.
MinSep == 600
SepStep == 100
MaxSepK == 9

Separations == {MinSep + k * SepStep : k \in 0..MaxSepK}

Idx == 0..(grid_pts - 1)

\* np.linspace(a, b, n): start + k*step, the last sample set to b
linspace(a, b, n) ==
    [k \in 0..(n - 1) |-> IF k = n - 1 THEN b ELSE a + k * Div(b - a, n - 1)]

\* lines 40-41: 1.5 * d_earth_moon
extent(d) == Div(3 * d, 2)

\* np.meshgrid(x, y): X[i, j] = x[j], Y[i, j] = y[i]
meshgrid_X(x, y) == [a \in DOMAIN y |-> [b \in DOMAIN x |-> x[b]]]
meshgrid_Y(x, y) == [a \in DOMAIN y |-> [b \in DOMAIN x |-> y[a]]]

\* np.sqrt(2), held to three decimals
Sqrt2 == Sqrt(2 * 1000000)

\* lines 55-56: d_earth_moon / np.sqrt(2)
x_moon(d) == Div(d * 1000, Sqrt2)
y_moon(d) == Div(d * 1000, Sqrt2)

\* np.zeros_like (lines 89-90)
zeros_like(A) == [a \in DOMAIN A |-> [b \in DOMAIN A[a] |-> 0]]

----------------------------------------------------------------------------
(* Part 3: the force loop (lines 92-98) and the magnitude (line 100) *)

\* the loop body reading the transposed cell
cell_force_transposed(d, XX, YY, a, b) ==
    LET x_pos == XX[b][a]
        y_pos == YY[b][a]
        F1 == gravitational_force(M_earth, m_cmd, 0, 0, x_pos, y_pos)
        F2 == gravitational_force(M_moon, m_cmd, x_moon(d), y_moon(d), x_pos, y_pos)
    IN  <<F1[1] + F2[1], F1[2] + F2[2]>>

\* lines 94-98: the two values the body of the loop stores for cell (a, b)
cell_force(d, XX, YY, a, b) ==
    LET x_pos == XX[a][b]
        y_pos == YY[a][b]
        F1 == gravitational_force(M_earth, m_cmd, 0, 0, x_pos, y_pos)
        F2 == gravitational_force(M_moon, m_cmd, x_moon(d), y_moon(d), x_pos, y_pos)
    IN  <<F1[1] + F2[1], F1[2] + F2[2]>>

\* a store that adds the row's previous cell (index -1 wraps, as in Python)
store_cumulative(A, a, b, v) ==
    [A EXCEPT ![a][b] = A[a][(b + grid_pts - 1) % grid_pts] + v]

\* lines 97-98: A[a, b] = v
store(A, a, b, v) == [A EXCEPT ![a][b] = v]

InitGrid ==
    /\ d_earth_moon \in Separations
    /\ LET x == linspace(-extent(d_earth_moon), extent(d_earth_moon), grid_pts)
           y == linspace(-extent(d_earth_moon), extent(d_earth_moon), grid_pts)
       IN  /\ X = meshgrid_X(x, y)
           /\ Y = meshgrid_Y(x, y)
    /\ Fx_total = zeros_like(X)
    /\ Fy_total = zeros_like(Y)
    /\ i = 0 /\ j = 0
    /\ magnitude = <<>>
    /\ done = {}
    /\ call = Null /\ ret = Null
    /\ profile = Null /\ T = Null /\ out = <<>> /\ t = Null /\ dv = Null

Init ==
    /\ pc = "loop"
    /\ InitGrid

\* one pass of the body of "for i ... for j ..." and the advance to the next cell
LoopStep ==
    /\ pc = "loop"
    /\ LET f == cell_force(d_earth_moon, X, Y, i, j)
       IN  /\ Fx_total' = store(Fx_total, i, j, f[1])
           /\ Fy_total' = store(Fy_total, i, j, f[2])
    /\ done' = done \cup {<<i, j>>}
    /\ IF j + 1 < grid_pts
       THEN /\ j' = j + 1
            /\ i' = i
            /\ pc' = "loop"
       ELSE /\ j' = 0
            /\ i' = i + 1
            /\ pc' = IF i + 1 < grid_pts THEN "loop" ELSE "magnitude"
    /\ UNCHANGED <<d_earth_moon, X, Y, magnitude, fieldVars, burnVars>>

\* line 100
ComputeMagnitude ==
    /\ pc = "magnitude"
    /\ magnitude' = [a \in DOMAIN Fx_total |->
                        [b \in DOMAIN Fx_total[a] |->
                            Magnitude(Fx_total[a][b], Fy_total[a][b])]]
    /\ pc' = "done"
    /\ UNCHANGED <<d_earth_moon, X, Y, Fx_total, Fy_total, i, j, done,
                   fieldVars, burnVars>>

Next == LoopStep \/ ComputeMagnitude

Spec == Init /\ [][Next]_vars

----------------------------------------------------------------------------
(* The same cells visited in any order, by any number of workers *)

FirstSep == MinSep
LastSep == MinSep + MaxSepK * SepStep

InitAnyOrder ==
    /\ pc = "loop"
    /\ InitGrid
    /\ d_earth_moon \in {FirstSep, LastSep}

\* some worker runs the loop body for a cell not yet visited
VisitCell ==
    /\ pc = "loop"
    /\ \E c \in (Idx \X Idx) \ done :
        /\ LET f == cell_force(d_earth_moon, X, Y, c[1], c[2])
           IN  /\ Fx_total' = store(Fx_total, c[1], c[2], f[1])
               /\ Fy_total' = store(Fy_total, c[1], c[2], f[2])
        /\ done' = done \cup {c}
        /\ pc' = IF done' = Idx \X Idx THEN "magnitude" ELSE "loop"
    /\ UNCHANGED <<d_earth_moon, X, Y, i, j, magnitude, fieldVars, burnVars>>

NextAnyOrder == VisitCell \/ ComputeMagnitude

SpecAnyOrder == InitAnyOrder /\ [][NextAnyOrder]_vars

\* The arrays the row-major double loop ends with: the body run for cell
\* number k, k+1, ... in the order i*grid_pts + j.
RECURSIVE RowMajor(_, _)
RowMajor(k, F) ==
    IF k >= grid_pts * grid_pts THEN F
    ELSE LET a == k \div grid_pts
             b == k % grid_pts
             f == cell_force(d_earth_moon, X, Y, a, b)
         IN  RowMajor(k + 1, <<store(F[1], a, b, f[1]), store(F[2], a, b, f[2])>>)

RowMajorResult == RowMajor(0, <<zeros_like(X), zeros_like(Y)>>)

----------------------------------------------------------------------------
(* Properties of the force loop *)

LoopFinished == pc \in {"magnitude", "done"}

EarthForce(a, b) == gravitational_force(M_earth, m_cmd, 0, 0, X[a][b], Y[a][b])
MoonForce(a, b) ==
    gravitational_force(M_moon, m_cmd, x_moon(d_earth_moon), y_moon(d_earth_moon),
                        X[a][b], Y[a][b])

\* C5: when the double loop has finished, every cell of Fx_total and Fy_total
\* holds the sum of the Earth force and the Moon force at the cell's own
\* coordinates (X[i, j], Y[i, j]); while it runs, exactly the cells before
\* (i, j) in row-major order have been written.
C5_GridSuperposition ==
    /\ LoopFinished =>
        \A a, b \in Idx :
            /\ Fx_total[a][b] = EarthForce(a, b)[1] + MoonForce(a, b)[1]
            /\ Fy_total[a][b] = EarthForce(a, b)[2] + MoonForce(a, b)[2]
    /\ LoopFinished => done = Idx \X Idx
    /\ pc = "loop" =>
        done = {c \in Idx \X Idx : c[1] * grid_pts + c[2] < i * grid_pts + j}

C5_Witness ==
    /\ pc = "done"
    /\ \E a, b \in Idx :
        /\ X[a][b] # Y[a][b]
        /\ EarthForce(a, b)[1] # 0
        /\ MoonForce(a, b)[1] # 0
        /\ Fx_total[a][b] = EarthForce(a, b)[1] + MoonForce(a, b)[1]
        /\ Fx_total[a][b] # Fx_total[b][a]

\* C10: a step of the loop body writes only its own cell of Fx_total and
\* Fy_total and leaves every other cell and X, Y unchanged; and whatever the
\* order in which the cells are visited, the arrays end equal to those of
\* the row-major double loop.
C10_OrderIndependent ==
    /\ [](LoopFinished => <<Fx_total, Fy_total>> = RowMajorResult)
    /\ [][pc = "loop" =>
            /\ X' = X /\ Y' = Y
            /\ Cardinality(done' \ done) = 1
            /\ \A c \in Idx \X Idx :
                c \notin (done' \ done) =>
                    /\ Fx_total'[c[1]][c[2]] = Fx_total[c[1]][c[2]]
                    /\ Fy_total'[c[1]][c[2]] = Fy_total[c[1]][c[2]]]_vars

C10_Witness ==
    /\ pc = "done"
    /\ <<Fx_total, Fy_total>> = RowMajorResult
    /\ \E a, b \in Idx : Fx_total[a][b] # 0 /\ Fx_total[a][b] # Fx_total[b][a]

----------------------------------------------------------------------------
(* binary64 arithmetic of the burn.  A natural number is held as its digits *)
(* to the base 2^15, lowest first, without high zeros (TLC's integers end   *)
(* at 2^31).  A value is [neg, m, e] = (-1)^neg * m * 2^e with m odd (or    *)
(* empty: zero), so equal values are equal records; a binary64 value has at *)
(* most 53 bits in m.  Exponent range and subnormals play no part in the    *)
(* burn and are left out.                                                   *)

Base == 2^15

\* n without its high zero digits, looked for from digit k down
RECURSIVE BNormFrom(_, _)
BNormFrom(n, k) ==
    IF k = 0 THEN <<>>
    ELSE IF n[k] # 0 THEN SubSeq(n, 1, k)
    ELSE BNormFrom(n, k - 1)

BNorm(n) == BNormFrom(n, Len(n))

RECURSIVE BFromInt(_)
BFromInt(n) == IF n = 0 THEN <<>> ELSE <<n % Base>> \o BFromInt(n \div Base)

\* the integer a big number is; it must be below 2^31
RECURSIVE BToInt(_)
BToInt(n) == IF n = <<>> THEN 0 ELSE n[1] + Base * BToInt(Tail(n))

Digit(n, k) == IF k <= Len(n) THEN n[k] ELSE 0

\* -1, 0, 1 as a < b, a = b, a > b, deciding from digit k down
RECURSIVE BCmpFrom(_, _, _)
BCmpFrom(a, b, k) ==
    IF k = 0 THEN 0
    ELSE IF Digit(a, k) # Digit(b, k) THEN (IF Digit(a, k) < Digit(b, k) THEN -1 ELSE 1)
    ELSE BCmpFrom(a, b, k - 1)

BCmp(a, b) == BCmpFrom(a, b, IF Len(a) >= Len(b) THEN Len(a) ELSE Len(b))

\* the digits k, k+1, ... of a + b + c
RECURSIVE BAddFrom(_, _, _, _)
BAddFrom(a, b, k, c) ==
    IF k > Len(a) /\ k > Len(b) THEN (IF c = 0 THEN <<>> ELSE <<c>>)
    ELSE LET sum == Digit(a, k) + Digit(b, k) + c
         IN  <<sum % Base>> \o BAddFrom(a, b, k + 1, sum \div Base)

BAdd(a, b) == BAddFrom(a, b, 1, 0)

\* the digits k, k+1, ... of a - b - c, for a >= b
RECURSIVE BSubFrom(_, _, _, _)
BSubFrom(a, b, k, c) ==
    IF k > Len(a) THEN <<>>
    ELSE LET diff == Digit(a, k) - Digit(b, k) - c
         IN  <<(diff + Base) % Base>> \o BSubFrom(a, b, k + 1, IF diff < 0 THEN 1 ELSE 0)

BSub(a, b) == BNorm(BSubFrom(a, b, 1, 0))

\* the digits k, k+1, ... of a * n + c, for 0 <= n < 2^15
RECURSIVE BMulSmallFrom(_, _, _, _)
BMulSmallFrom(a, n, k, c) ==
    IF k > Len(a) THEN (IF c = 0 THEN <<>> ELSE <<c>>)
    ELSE LET prod == a[k] * n + c
         IN  <<prod % Base>> \o BMulSmallFrom(a, n, k + 1, prod \div Base)

BMulSmall(a, n) == BNorm(BMulSmallFrom(a, n, 1, 0))

\* a * b, digit by digit of b from digit k on
RECURSIVE BMulFrom(_, _, _)
BMulFrom(a, b, k) ==
    IF k > Len(b) THEN <<>>
    ELSE BAdd([q \in 1..(k - 1) |-> 0] \o BMulSmall(a, b[k]), BMulFrom(a, b, k + 1))

BMul(a, b) == BNorm(BMulFrom(a, b, 1))

\* <<quotient digits, remainder>> of the digits k, ..., 1 of a by n, with the
\* remainder r of the higher digits, for 0 < n < 2^15
RECURSIVE BDivSmallFrom(_, _, _, _)
BDivSmallFrom(a, n, k, r) ==
    IF k = 0 THEN <<(<<>>), r>>
    ELSE LET cur == r * Base + a[k]
             low == BDivSmallFrom(a, n, k - 1, cur % n)
         IN  <<Append(low[1], cur \div n), low[2]>>

\* <<a div n, a mod n>>
BDivSmall(a, n) ==
    LET qr == BDivSmallFrom(a, n, Len(a), 0)
    IN  <<BNorm(qr[1]), qr[2]>>

\* a * 2^s
BShl(a, s) ==
    IF a = <<>> THEN <<>>
    ELSE [q \in 1..(s \div 15) |-> 0] \o BMulSmall(a, 2^(s % 15))

\* a div 2^s
BShr(a, s) ==
    IF s \div 15 >= Len(a) THEN <<>>
    ELSE BDivSmall(SubSeq(a, s \div 15 + 1, Len(a)), 2^(s % 15))[1]

\* bit k of a, bit 0 the lowest
BBit(a, k) == (Digit(a, k \div 15 + 1) \div 2^(k % 15)) % 2

RECURSIVE IntBits(_)
IntBits(n) == IF n = 0 THEN 0 ELSE 1 + IntBits(n \div 2)

\* the number of bits of a
BLen(a) == IF a = <<>> THEN 0 ELSE 15 * (Len(a) - 1) + IntBits(a[Len(a)])

\* the number of low zero bits of a # 0, counted from bit k on
RECURSIVE BLowZerosFrom(_, _)
BLowZerosFrom(a, k) == IF BBit(a, k) = 1 THEN k ELSE BLowZerosFrom(a, k + 1)

\* the canonical record of (-1)^neg * m * 2^e
Canon(neg, m, e) ==
    IF BNorm(m) = <<>> THEN [neg |-> FALSE, m |-> <<>>, e |-> 0]
    ELSE LET z == BLowZerosFrom(BNorm(m), 0)
         IN  [neg |-> neg, m |-> BShr(BNorm(m), z), e |-> e + z]

\* round to 53 bits, to nearest, ties to even
Round53(x) ==
    IF BLen(x.m) <= 53 THEN x
    ELSE LET s == BLen(x.m) - 53
             keep == BShr(x.m, s)
             guard == BBit(x.m, s - 1)
             sticky == s > 1                  \* m is odd: bit 0 is set
             up == guard = 1 /\ (sticky \/ BBit(keep, 0) = 1)
         IN  Canon(x.neg, IF up THEN BAdd(keep, <<1>>) ELSE keep, x.e + s)

FromInt(n) == Canon(n < 0, BFromInt(IF n < 0 THEN -n ELSE n), 0)

Neg64(x) == Canon(~x.neg, x.m, x.e)

\* the exact sum
AddExact(x, y) ==
    LET e0 == IF x.e <= y.e THEN x.e ELSE y.e
        mx == BShl(x.m, x.e - e0)
        my == BShl(y.m, y.e - e0)
    IN  IF x.neg = y.neg THEN Canon(x.neg, BAdd(mx, my), e0)
        ELSE IF BCmp(mx, my) >= 0 THEN Canon(x.neg, BSub(mx, my), e0)
        ELSE Canon(y.neg, BSub(my, mx), e0)

\* -1, 0, 1 as x < y, x = y, x > y
Cmp64(x, y) ==
    LET d == AddExact(x, Neg64(y))
    IN  IF d.m = <<>> THEN 0 ELSE IF d.neg THEN -1 ELSE 1

Add64(x, y) == Round53(AddExact(x, y))
Sub64(x, y) == Round53(AddExact(x, Neg64(y)))
Mul64(x, y) == Round53(Canon(x.neg # y.neg, BMul(x.m, y.m), x.e + y.e))

\* x / y for a y whose m is below 2^15, as every divisor of the burn is: the
\* quotient to 55 bits and more, one more bit standing for a remainder that
\* is not zero, then rounded
Div64(x, y) ==
    LET qr == BDivSmall(BShl(x.m, 70), BToInt(y.m))
    IN  IF qr[2] = 0 THEN Round53(Canon(x.neg # y.neg, qr[1], x.e - y.e - 70))
        ELSE Round53(Canon(x.neg # y.neg, BAdd(BShl(qr[1], 1), <<1>>), x.e - y.e - 71))

\* np.maximum on binary64 values
Maximum64(x, y) == IF Cmp64(x, y) >= 0 THEN x ELSE y

\* the unit in the last place of x # 0
Ulp(x) == Canon(FALSE, <<1>>, BLen(x.m) + x.e - 53)

\* the nearest integer to x, ties to even; it must be below 2^31
ToNearestInt(x) ==
    LET sgn == IF x.neg THEN -1 ELSE 1
    IN  IF x.m = <<>> THEN 0
        ELSE IF x.e >= 0 THEN sgn * BToInt(BShl(x.m, x.e))
        ELSE LET s == -x.e
                 whole == BToInt(BShr(x.m, s))
                 guard == BBit(x.m, s - 1)
                 sticky == s > 1
                 up == guard = 1 /\ (sticky \/ whole % 2 = 1)
             IN  sgn * (IF up THEN whole + 1 ELSE whole)

----------------------------------------------------------------------------
(* Part 4: rocket altitude (lines 112-122) *)

\* np.log(num / den) in units of 1e-4, for num >= den > 0 below 2^31 / 1e4:
\* the ratio to four decimals, halved into [1, 2), then the series of
\* 2 * artanh((y - 1) / (y + 1)).  The velocity is held to this precision;
\* the mass and the branch are binary64.
RECURSIVE LnRatio(_)
LnRatio(r) ==
    IF r >= 20000 THEN 6931 + LnRatio(r \div 2)
    ELSE LET z == ((r - 10000) * 10000) \div (r + 10000)
             z2 == (z * z) \div 10000
             z3 == (z * z2) \div 10000
             z5 == (z3 * z2) \div 10000
             z7 == (z5 * z2) \div 10000
         IN  2 * (z + z3 \div 3 + z5 \div 5 + z7 \div 7)

Log(num, den) == LnRatio((num * 100) \div (den \div 100))

\* the exact product n * x of an integer and a binary64 value
Scale(n, x) == AddExact(Mul64(FromInt(0), x), Canon(x.neg, BMulSmall(x.m, n), x.e))

\* lines 112-117.  tt, m0_, mf_, mdot_ are binary64 values; ve_ is in m/s and
\* g_ in cm/s^2.  The result is the returned velocity v, in cm/s, with the
\* local m_t and the branch taken.
delta_v(tt, m0_, mf_, mdot_, ve_, g_) ==
    LET m_t == Maximum64(Sub64(m0_, Mul64(mdot_, tt)), mf_)
    IN  IF Cmp64(m_t, mf_) > 0
        THEN [burning |-> TRUE, m_t |-> m_t,
              v |-> Div(ve_ * Log(ToNearestInt(m0_), ToNearestInt(m_t)), 100)
                        - Div(g_ * ToNearestInt(Scale(1000, tt)), 1000)]
        ELSE [burning |-> FALSE, m_t |-> m_t, v |-> 0]

\* line 119
burn_time(m0_, mf_, mdot_) == Div64(Sub64(m0_, mf_), mdot_)

\* f"{x:.2f}": the exact value of x rounded to hundredths, ties to even
Format2f(x) ==
    LET h == ToNearestInt(Scale(100, x))
    IN  [whole |-> h \div 100, cents |-> h % 100]

\* v_func (line 122)
v_func(tt) ==
    delta_v(tt, FromInt(profile.m0), FromInt(profile.mf), FromInt(profile.mdot), ve, g)

\* The program's burn and others around it
Apollo == [m0 |-> m0, mf |-> mf, mdot |-> mdot]

Profiles ==
    {[m0 |-> a, mf |-> b, mdot |-> c] :
        a \in {m0, 3000000}, b \in {mf, 1000000}, c \in {mdot, 10000}}

TimeStep == 40        \* seconds between the whole-second sample times
MaxTick == 8          \* the sample times run to MaxTick * TimeStep

\* The times delta_v is sampled at: whole seconds, T, and T's two neighbours
\* among the binary64 values
Times ==
    {FromInt(k * TimeStep) : k \in 0..MaxTick}
        \cup {Sub64(T, Ulp(T)), T, Add64(T, Ulp(T))}

InitBurn ==
    /\ pc = "T"
    /\ profile \in Profiles
    /\ T = Null /\ out = <<>> /\ t = Null /\ dv = Null
    /\ call = Null /\ ret = Null
    /\ d_earth_moon = 0 /\ X = <<>> /\ Y = <<>> /\ Fx_total = <<>> /\ Fy_total = <<>>
    /\ i = 0 /\ j = 0 /\ magnitude = <<>> /\ done = {}

\* lines 119-120
ComputeT ==
    /\ pc = "T"
    /\ T' = burn_time(FromInt(profile.m0), FromInt(profile.mf), FromInt(profile.mdot))
    /\ out' = Append(out, Format2f(T'))
    /\ pc' = "quad"
    /\ UNCHANGED <<profile, t, dv, fieldVars, gridVars>>

\* a call of v_func at a later time than the last one
Sample ==
    /\ pc \in {"quad", "sampled"}
    /\ \E s \in Times :
        /\ pc = "sampled" => Cmp64(s, t) > 0
        /\ t' = s
        /\ dv' = v_func(s)
    /\ pc' = "sampled"
    /\ UNCHANGED <<profile, T, out, fieldVars, gridVars>>

NextBurn == ComputeT \/ Sample

SpecBurn == InitBurn /\ [][NextBurn]_vars

----------------------------------------------------------------------------
(* Properties of the burn, under SpecBurn *)

\* C3: delta_v takes the Burning branch exactly for 0 <= t < T and returns 0
\* for every t >= T, t = T included; as t only increases from call to call,
\* the branch then changes from Burning to Burned-out once and never back.
C3_BurnStates ==
    pc = "sampled" =>
        /\ dv.burning <=> (Cmp64(t, FromInt(0)) >= 0 /\ Cmp64(t, T) < 0)
        /\ Cmp64(t, T) >= 0 => dv.v = 0

\* C8: with the program's m0, mf and mdot the burn time, computed in the one
\* step of line 119, lies in [157.69, 157.70) and prints as 157.69, and the
\* mass at t = T, max(m0 - mdot*T, mf), is mf.
C8_BurnTime ==
    (profile = Apollo /\ pc # "T") =>
        /\ Cmp64(Scale(100, T), FromInt(15769)) >= 0
        /\ Cmp64(Scale(100, T), FromInt(15770)) < 0
        /\ out = <<[whole |-> 157, cents |-> 69]>>
        /\ (pc = "sampled" /\ t = T) => dv.m_t = FromInt(mf)

====
